---- MODULE Spec2Model ----
(***************************************************************************)
(* State-machine model of the two views of the crop-yield web client:      *)
(*   - PredictionForm (src/unnamed/part_000): the intake form, its         *)
(*     validation, the 2 s delayed completion and the synthesized result;  *)
(*   - Dashboard (src/src/pages/Dashboard.tsx): the three parallel reads,  *)
(*     the view-state slots and the derived totalArea, avgYield, chartData.*)
(*                                                                         *)
(* One action is one run of a handler on the single UI thread (an event    *)
(* handler, a timer callback, a promise continuation).  React applies the  *)
(* state updates a handler queued when the handler returns, so the value   *)
(* a slot has after the action is the last value the handler set.          *)
(*                                                                         *)
(* Numbers.  Math.random() is modelled as a dyadic rational k / 2^RandBits *)
(* (every such value is a double in [0,1), and r*3+2, r*10+18, r*60+30,    *)
(* r*20+80 are then exact in double arithmetic), so a number is carried as *)
(* its numerator over Scale.  Number.prototype.toFixed(d) yields a decimal *)
(* string with d fraction digits; that string is carried as the integer n  *)
(* it denotes in units of 10^-d ("4.99" is 499, "28.0" is 280).            *)
(***************************************************************************)
EXTENDS Integers, Sequences, FiniteSets, TLC

\* ------------------------------------------------------------------ bounds
\* Math.random() returns k / 2^RandBits.
RandBits == 10
\* Accepted (valid) submits of one form instance that the model follows.
MaxSubmits == 2
\* Optional fields (area, soilPh, soilMoisture, organicMatter) the user fills.
MaxOptionalFilled == 1
\* Rows of the backend's farms and predictions tables.
MaxFarms == 3
MaxPredictions == 11
\* Rounds of fetchDashboardData in flight at once.
MaxInFlight == 1

VARIABLES
    formData,   \* PredictionForm: useState<FormData>
    isLoading,  \* PredictionForm: useState(false)
    timers,     \* pending setTimeout callbacks, oldest first; each holds the
                \* formData its closure captured
    effects,    \* what the last handler run did, in program order
    accepted,   \* history: submits made with all required fields filled
    called,     \* history: invocations of onPrediction
    formMounted, \* PredictionForm is on screen (not yet dismantled)
    user,       \* Dashboard: useAuth().user
    route,      \* the route shown; navigate() changes it
    mounted,    \* Dashboard: its mount effect has run
    farms,      \* Dashboard: useState<Farm[]>([])
    predictions, \* Dashboard: useState<Prediction[]>([])
    profile,    \* Dashboard: useState<Profile | null>(null)
    loading,    \* Dashboard: useState(true)
    inflight,   \* rounds of fetchDashboardData awaiting their Promise.all
    dashEffects \* what the last Dashboard handler run did, in program order

formVars == <<formData, isLoading, timers, effects, accepted, called,
              formMounted>>
dashVars == <<user, route, mounted, farms, predictions, profile, loading,
              inflight, dashEffects>>
vars == <<formData, isLoading, timers, effects, accepted, called,
          formMounted, user, route, mounted, farms, predictions, profile, loading,
          inflight, dashEffects>>

\* ------------------------------------------------------------ form data
Fields ==
    {"name", "phone", "location", "crop",
     "area", "soilPh", "soilMoisture", "organicMatter"}

\* What the user types or selects: nothing, or something.
FieldValues == {"", "a"}

EmptyForm == [f \in Fields |-> ""]

\* ------------------------------------------------------------- numerics
RECURSIVE Pow(_, _)
Pow(b, e) == IF e = 0 THEN 1 ELSE b * Pow(b, e - 1)

Scale == Pow(2, RandBits)

\* The values Math.random() is followed through: the least and the greatest
\* double of the grid in [0,1) (every sample below is monotone in r).
RandomDraws == {0, Scale - 1}

\* Number.prototype.toFixed(digits) of num / Scale: the integer n for which
\* n / 10^digits - x is closest to zero, the larger n on a tie.
ToFixed(num, digits) ==
    (2 * num * Pow(10, digits) + Scale) \div (2 * Scale)

\* A sample that takes the upper end of the range for its width.
YieldSampleWide(r) == r * 5 + 2 * Scale

\* Math.random() * 3 + 2
YieldSample(r) == r * 3 + 2 * Scale
\* Math.random() * 10 + 18
TemperatureSample(r) == r * 10 + 18 * Scale
\* A sample that takes the upper end of the range for its width.
RainfallSampleWide(r) == r * 90 + 30 * Scale

\* Math.random() * 60 + 30
RainfallSample(r) == r * 60 + 30 * Scale
\* Math.random() * 20 + 80
ConfidenceSample(r) == r * 20 + 80 * Scale

mockResult(r1, r2, r3, r4, fd) ==
    [yield       |-> ToFixed(YieldSample(r1), 2),
     temperature |-> ToFixed(TemperatureSample(r2), 1),
     rainfall    |-> ToFixed(RainfallSample(r3), 0),
     confidence  |-> ToFixed(ConfidenceSample(r4), 0),
     farmData    |-> fd]

\* -------------------------------------------------------------- effects
Eff(op, arg) == [op |-> op, arg |-> arg]

RECURSIVE CountOp(_, _)
CountOp(es, op) ==
    IF es = <<>> THEN 0
    ELSE (IF Head(es).op = op THEN 1 ELSE 0) + CountOp(Tail(es), op)

\* The closures the handler handed to setTimeout, in order.
RECURSIVE Scheduled(_)
Scheduled(es) ==
    IF es = <<>> THEN <<>>
    ELSE (IF Head(es).op = "setTimeout" THEN <<Head(es).arg>> ELSE <<>>)
         \o Scheduled(Tail(es))

\* The value of isLoading once the queued setIsLoading calls are applied.
RECURSIVE LoadingAfter(_, _)
LoadingAfter(es, cur) ==
    IF es = <<>> THEN cur
    ELSE LoadingAfter(Tail(es),
                      IF Head(es).op = "setIsLoading" THEN Head(es).arg ELSE cur)

\* ------------------------------------------------------------- handlers
\* A validation that forgets the crop selector.
ValidationFailsNoCrop(fd) ==
    \/ fd["name"] = ""
    \/ fd["phone"] = ""
    \/ fd["location"] = ""

\* !formData.name || !formData.phone || !formData.location || !formData.crop
\* (a string is falsy exactly when it is empty)
ValidationFails(fd) ==
    \/ fd["name"] = ""
    \/ fd["phone"] = ""
    \/ fd["location"] = ""
    \/ fd["crop"] = ""

\* A validation branch that returns without clearing the flag.
RejectEffectsKeepLoading ==
    << Eff("toast", "Missing Information") >>

\* The validation branch of handleSubmit.
RejectEffects ==
    << Eff("toast", "Missing Information"),
       Eff("setIsLoading", FALSE) >>

\* The rest of handleSubmit: schedule the completion, which closes over the
\* formData of the render the handler belongs to.
ScheduleEffects(fd) ==
    << Eff("setTimeout", [formData |-> fd, delay |-> 2000]) >>

handleSubmitEffects(fd) ==
    << Eff("preventDefault", TRUE), Eff("setIsLoading", TRUE) >>
    \o (IF ValidationFails(fd) THEN RejectEffects ELSE ScheduleEffects(fd))

\* A completion that clears the flag and notifies before it calls back.
CompletionEffectsCallbackLast(result) ==
    << Eff("setIsLoading", FALSE),
       Eff("toast", "Prediction Complete!"),
       Eff("onPrediction", result) >>

\* The body of the setTimeout callback.
CompletionEffects(result) ==
    << Eff("onPrediction", result),
       Eff("setIsLoading", FALSE),
       Eff("toast", "Prediction Complete!") >>

\* A submit button that is never disabled.
SubmitAlwaysEnabled == TRUE

\* <Button type="submit" disabled={isLoading}>: the form's only submit button;
\* a disabled default button also blocks implicit submission (Enter).
SubmitEnabled == ~isLoading

\* The required fields, as the form marks them ("*").
RequiredFields == {"name", "phone", "location", "crop"}
RequiredFilled(fd) == \A f \in RequiredFields : fd[f] # ""

\* What every handler run does to the timer queue, the flag and the history.
Run(es, pendingNow) ==
    /\ effects' = es
    /\ isLoading' = LoadingAfter(es, isLoading)
    /\ timers' = pendingNow \o Scheduled(es)
    /\ called' = called + CountOp(es, "onPrediction")

handleInputChange(field, value) ==
    /\ formData' = [formData EXCEPT ![field] = value]
    /\ Run(<<>>, timers)
    /\ UNCHANGED <<accepted, formMounted, dashVars>>

OptionalFilled(fd) == Cardinality({f \in Fields \ RequiredFields : fd[f] # ""})

InputChange ==
    \E field \in Fields, value \in FieldValues :
        /\ formMounted
        /\ OptionalFilled([formData EXCEPT ![field] = value]) <= MaxOptionalFilled
        /\ handleInputChange(field, value)

handleSubmit ==
    /\ formMounted
    /\ SubmitEnabled
    /\ RequiredFilled(formData) => accepted < MaxSubmits
    /\ Run(handleSubmitEffects(formData), timers)
    /\ accepted' = accepted + (IF RequiredFilled(formData) THEN 1 ELSE 0)
    /\ UNCHANGED <<formData, formMounted, dashVars>>

\* A callback that reads the form data of the latest render.
LatestFormData(timer, current) == current

\* farmData: formData inside the callback: the formData of the render whose
\* handleSubmit created the callback, whatever the form holds now.
ClosureFormData(timer, current) == timer.formData

\* The timer callback runs, whether or not the form is still on screen: the
\* setters are called on the instance that scheduled it.
TimerFire ==
    /\ timers # <<>>
    /\ \E r1 \in RandomDraws, r2 \in RandomDraws,
          r3 \in RandomDraws, r4 \in RandomDraws :
          Run(CompletionEffects(
                  mockResult(r1, r2, r3, r4,
                             ClosureFormData(Head(timers), formData))),
              Tail(timers))
    /\ UNCHANGED <<formData, accepted, formMounted, dashVars>>

\* An unmount with a cleanup that clears the pending timeouts.
PendingAfterUnmountCleared(pending) == <<>>

\* The timers still pending once the component is dismantled: the id that
\* setTimeout returns is dropped and the component has no cleanup, so all.
PendingAfterUnmount(pending) == pending

\* The parent stops rendering PredictionForm.
Unmount ==
    /\ formMounted
    /\ formMounted' = FALSE
    /\ Run(<<>>, PendingAfterUnmount(timers))
    /\ UNCHANGED <<formData, accepted, dashVars>>

FormInit ==
    /\ formData = EmptyForm
    /\ isLoading = FALSE
    /\ timers = <<>>
    /\ effects = <<>>
    /\ accepted = 0
    /\ called = 0
    /\ formMounted = TRUE

FormNext == InputChange \/ handleSubmit \/ TimerFire \/ Unmount

\* ============================================================ Dashboard
NoUser == "null"
\* A user object of useAuth.  useAuth hands out a new object whenever the
\* session changes (sign-in, token refresh), so two renders may hold
\* different objects for the same signed-in account.
UserObjects == {"user"}

Null == [null |-> TRUE]

Min(a, b) == IF a < b THEN a ELSE b

\* ---- the backend's tables.  Areas are in half hectares and yields in
\* quarter tonnes per hectare (dyadic, so the double additions below are
\* exact); created_at is in hours.
FarmArea(i) == CASE i = 1 -> 5  [] i = 2 -> 3  [] OTHER -> 2 * i + 2

FarmRow(i) ==
    [id |-> i, area_hectares |-> FarmArea(i), created_at |-> 100 * i]

\* Rows are not created in id order, and rows 5 and 8 share a timestamp.
PredictionCreatedAt(i) ==
    LET k == (i * 5) % 12 IN 10 * (IF k = 4 THEN 1 ELSE k)

PredictionRow(i) ==
    [id |-> i,
     yield_per_hectare |-> 8 + ((i * 7) % 12),
     confidence_score  |-> 80 + ((i * 11) % 21),
     created_at        |-> PredictionCreatedAt(i),
     farm_id           |-> 1 + (i % MaxFarms)]

ProfileRows ==
    {[display_name |-> "Asha", subscription_tier |-> "free"]}

FarmTables == {{FarmRow(i) : i \in 1..n} : n \in 0..MaxFarms}
PredictionTables == {{PredictionRow(i) : i \in 1..n} : n \in 0..MaxPredictions}

\* .order('created_at', { ascending: false }): the rows newest first; rows
\* with equal timestamps come in an order the backend chooses.
RECURSIVE OrderDescending(_)
OrderDescending(rows) ==
    IF rows = {} THEN {<<>>}
    ELSE UNION {{<<x>> \o rest : rest \in OrderDescending(rows \ {x})} :
                x \in {y \in rows : \A z \in rows : z.created_at <= y.created_at}}

\* .limit(n)
Limit(seq, n) == SubSeq(seq, 1, Min(n, Len(seq)))

\* ---- what one query's promise settles to.
Rejected == [settled |-> "rejected"]
Resolved(data) == [settled |-> "resolved", isNull |-> FALSE, data |-> data]
\* { data: null, error }: the query was answered with an error.
ResolvedNull == [settled |-> "resolved", isNull |-> TRUE]

\* supabase.from('farms').select('*').order('created_at', { ascending: false })
FarmsResults ==
    {Rejected, ResolvedNull}
    \cup {Resolved(rows) : rows \in UNION {OrderDescending(t) : t \in FarmTables}}

\* supabase.from('predictions').select('*')
\*     .order('created_at', { ascending: false }).limit(10)
PredictionsResults ==
    {Rejected, ResolvedNull}
    \cup {Resolved(Limit(rows, 10)) :
            rows \in UNION {OrderDescending(t) : t \in PredictionTables}}

\* supabase.from('profiles').select('*').single(): the row, or an error
\* when there is not exactly one.
ProfileResults ==
    {Rejected, ResolvedNull} \cup {Resolved(row) : row \in ProfileRows}

\* if (result.data): null is falsy, an array (also an empty one) is truthy.
HasData(result) == ~result.isNull

\* ---- fetchDashboardData after its await.
\* Setters that run only when all three results carry data.
SetterEffectsAllOrNothing(farmsResult, predictionsResult, profileResult) ==
    IF HasData(farmsResult) /\ HasData(predictionsResult)
       /\ HasData(profileResult)
    THEN << Eff("setFarms", farmsResult.data),
            Eff("setPredictions", predictionsResult.data),
            Eff("setProfile", profileResult.data) >>
    ELSE <<>>

\* The try block after the await: the three conditional setters.
SetterEffects(farmsResult, predictionsResult, profileResult) ==
    (IF HasData(farmsResult)
        THEN <<Eff("setFarms", farmsResult.data)>> ELSE <<>>)
    \o (IF HasData(predictionsResult)
        THEN <<Eff("setPredictions", predictionsResult.data)>> ELSE <<>>)
    \o (IF HasData(profileResult)
        THEN <<Eff("setProfile", profileResult.data)>> ELSE <<>>)

\* catch (error) { console.error(...) }
CatchEffects == << Eff("console.error", "Error fetching dashboard data:") >>

\* A finally block that is missing: the flag is cleared on success only.
FinallyEffectsMissing(rejected) ==
    IF rejected THEN <<>> ELSE << Eff("setLoading", FALSE) >>

\* finally { setLoading(false) }
FinallyEffects(rejected) == << Eff("setLoading", FALSE) >>

\* Promise.all rejects as soon as one of its promises rejects.
AllRejects(farmsResult, predictionsResult, profileResult) ==
    \/ farmsResult.settled = "rejected"
    \/ predictionsResult.settled = "rejected"
    \/ profileResult.settled = "rejected"

\* The queries of a round whose promises were fulfilled with data.
Fulfilled(result) ==
    result.settled = "resolved" /\ result.isNull = FALSE

WithData(farmsResult, predictionsResult, profileResult) ==
    (IF Fulfilled(farmsResult) THEN {"farms"} ELSE {})
    \cup (IF Fulfilled(predictionsResult) THEN {"predictions"} ELSE {})
    \cup (IF Fulfilled(profileResult) THEN {"profile"} ELSE {})

\* The run of fetchDashboardData from its await on; the first entry tells how
\* the await ended and which of the three queries had come back with data.
fetchDashboardDataEffects(farmsResult, predictionsResult, profileResult) ==
    LET rejected == AllRejects(farmsResult, predictionsResult, profileResult)
    IN << Eff("await",
              [outcome  |-> IF rejected THEN "rejected" ELSE "fulfilled",
               withData |-> WithData(farmsResult, predictionsResult,
                                     profileResult)]) >>
       \o (IF rejected THEN CatchEffects
           ELSE SetterEffects(farmsResult, predictionsResult, profileResult))
       \o FinallyEffects(rejected)

\* The argument of the last call of setter op in es, or cur when there is none.
RECURSIVE ValueAfter(_, _, _)
ValueAfter(es, op, cur) ==
    IF es = <<>> THEN cur
    ELSE ValueAfter(Tail(es), op, IF Head(es).op = op THEN Head(es).arg ELSE cur)

DashRun(es) ==
    /\ dashEffects' = es
    /\ farms' = ValueAfter(es, "setFarms", farms)
    /\ predictions' = ValueAfter(es, "setPredictions", predictions)
    /\ profile' = ValueAfter(es, "setProfile", profile)
    /\ loading' = ValueAfter(es, "setLoading", loading)
    /\ route' = ValueAfter(es, "navigate", route)
    /\ inflight' = inflight + CountOp(es, "fetchDashboardData")

\* The body of the useEffect with dependencies [user, navigate].
useEffectEffects(u) ==
    IF u = NoUser THEN << Eff("navigate", "/auth") >>
    ELSE << Eff("fetchDashboardData", TRUE) >>

\* The first render commits and the effect runs.
Mount ==
    /\ ~mounted
    /\ mounted' = TRUE
    /\ DashRun(useEffectEffects(user))
    /\ UNCHANGED <<user, formVars>>

\* useAuth hands out another user value (null, or a new user object): the
\* dependency changed, the effect runs again.
AuthChange ==
    /\ mounted
    /\ route = "/dashboard"
    /\ \E u \in UserObjects \cup {NoUser} :
          /\ u # NoUser => inflight < MaxInFlight
          /\ user' = u
          /\ DashRun(useEffectEffects(u))
    /\ UNCHANGED <<mounted, formVars>>

\* The Promise.all of one round settles and fetchDashboardData resumes.
FetchSettle ==
    /\ inflight > 0
    /\ \E farmsResult \in FarmsResults,
          predictionsResult \in PredictionsResults,
          profileResult \in ProfileResults :
          /\ dashEffects' = fetchDashboardDataEffects(
                                farmsResult, predictionsResult, profileResult)
          /\ farms' = ValueAfter(dashEffects', "setFarms", farms)
          /\ predictions' = ValueAfter(dashEffects', "setPredictions", predictions)
          /\ profile' = ValueAfter(dashEffects', "setProfile", profile)
          /\ loading' = ValueAfter(dashEffects', "setLoading", loading)
    /\ inflight' = inflight - 1
    /\ UNCHANGED <<user, route, mounted, formVars>>

\* ---- derived values of a render.
\* A total that takes the newest farm's area only.
totalAreaNewest == IF farms = <<>> THEN 0 ELSE farms[1].area_hectares

RECURSIVE ReduceArea(_, _)
ReduceArea(fs, sum) ==
    IF fs = <<>> THEN sum
    ELSE ReduceArea(Tail(fs), sum + Head(fs).area_hectares)

\* farms.reduce((sum, farm) => sum + farm.area_hectares, 0)
totalArea == ReduceArea(farms, 0)

\* {totalArea.toFixed(1)} ha: the area, in half hectares, to one decimal.
totalAreaDisplay == ToFixed(totalArea * (Scale \div 2), 1)

RECURSIVE ReduceYield(_, _)
ReduceYield(ps, sum) ==
    IF ps = <<>> THEN sum
    ELSE ReduceYield(Tail(ps), sum + Head(ps).yield_per_hectare)

\* The quotient num / den of two numbers; den = 0 is the division by zero.
Quotient(num, den) == [num |-> num, den |-> den]

\* A mean that divides without looking at the length.
avgYieldUnguarded == Quotient(ReduceYield(predictions, 0), Len(predictions))

\* predictions.length > 0 ? reduce(...) / predictions.length : 0
avgYield ==
    IF Len(predictions) > 0
    THEN Quotient(ReduceYield(predictions, 0), Len(predictions))
    ELSE Quotient(0, 1)

\* Array.prototype.slice(0, end)
Slice(seq, end) == SubSeq(seq, 1, Min(end, Len(seq)))

\* Array.prototype.reverse
Reverse(seq) == [i \in 1..Len(seq) |-> seq[Len(seq) + 1 - i]]

\* new Date(created_at).toLocaleDateString(): the calendar day.
LocaleDate(created_at) == created_at \div 24

ChartPoint(pred) ==
    [date       |-> LocaleDate(pred.created_at),
     yield      |-> pred.yield_per_hectare,
     confidence |-> pred.confidence_score]

\* A series that is left newest first.
chartDataNotReversed ==
    LET shown == Slice(predictions, 7)
    IN [i \in 1..Len(shown) |-> ChartPoint(shown[i])]

\* predictions.slice(0, 7).map(...).reverse()
chartData ==
    LET shown == Slice(predictions, 7)
    IN Reverse([i \in 1..Len(shown) |-> ChartPoint(shown[i])])

DashInit ==
    /\ user \in UserObjects \cup {NoUser}
    /\ route = "/dashboard"
    /\ mounted = FALSE
    /\ farms = <<>>
    /\ predictions = <<>>
    /\ profile = Null
    /\ loading = TRUE
    /\ inflight = 0
    /\ dashEffects = <<>>

DashNext == Mount \/ AuthChange \/ FetchSettle

Init == FormInit /\ DashInit

DashSpec == Init /\ [][DashNext]_vars

\* A round in flight settles: the only steps that take a round out of
\* flight are FetchSettle steps, enabled exactly when a round is in flight.
RoundSettles == inflight > 0 /\ inflight' = inflight - 1

\* React runs the mount effect, and every query's promise settles (the
\* backend answers or the request fails).
DashFairSpec == DashSpec /\ WF_vars(Mount) /\ WF_inflight(RoundSettles)

\* The form view on its own: the Dashboard is not mounted.
FormViewInit == FormInit /\ DashInit /\ user = NoUser

FormSpec == FormViewInit /\ [][FormNext]_vars

\* The oldest timer fires: the only steps that take a timer off the queue
\* are TimerFire steps, enabled exactly when a timer is pending.
TimerFires == timers # <<>> /\ timers' = Tail(timers)

\* The event loop runs a timer callback once its delay has passed.
FormFairSpec == FormSpec /\ WF_timers(TimerFires)

\* ================================================================ claims
\* The results onPrediction received in the last handler run.
LastCalls ==
    {effects[i].arg : i \in {j \in DOMAIN effects : effects[j].op = "onPrediction"}}

\* The last handler run was a run of handleSubmit.
IsSubmitRun(es) == es # <<>> /\ es[1].op = "preventDefault"

\* The notices the last handler run raised.
Toasts(es) == {es[i].arg : i \in {j \in DOMAIN es : es[j].op = "toast"}}

\* C1: a submit made while name, phone, location or crop is empty makes no
\* call of onPrediction and schedules no completion; every completion that
\* is pending and every call that is made stems from a submit with all four
\* filled, so the calls made and pending are exactly the accepted submits.
C1_InvalidSubmitNeverCalls ==
    /\ (IsSubmitRun(effects) /\ ~RequiredFilled(formData))
          => /\ CountOp(effects, "onPrediction") = 0
             /\ Scheduled(effects) = <<>>
    /\ \A i \in DOMAIN timers : RequiredFilled(timers[i].formData)
    /\ \A c \in LastCalls : RequiredFilled(c.farmData)
    /\ called + Len(timers) = accepted

\* A rejected submit of a partly filled form, after an earlier submit was
\* accepted and completed.
C1_Witness ==
    /\ IsSubmitRun(effects)
    /\ ~RequiredFilled(formData)
    /\ formData["name"] # ""
    /\ called = 1
    /\ timers = <<>>

\* C2 as stated: each call's result has yield in [2,5) and confidence in
\* [80,100], and no accepted submit is answered more than once.
C2_Original ==
    /\ \A c \in LastCalls :
          /\ 200 <= c.yield /\ c.yield < 500
          /\ 80 <= c.confidence /\ c.confidence <= 100
    /\ called <= accepted

\* C2 (amended): every accepted submit is answered by exactly one call of
\* onPrediction (the k-th accepted submit leads to the k-th call, and there
\* are never more calls than accepted submits), and the result handed over
\* has yield in [2,5] and confidence in [80,100], both ends included.
C2_ValidSubmitCallsOnce ==
    /\ [](\A c \in LastCalls :
             /\ 200 <= c.yield /\ c.yield <= 500
             /\ 80 <= c.confidence /\ c.confidence <= 100)
    /\ [](called <= accepted /\ accepted - called = Len(timers))
    /\ \A k \in 1..MaxSubmits : (accepted >= k) ~> (called >= k)

\* The second accepted submit has been answered, with a yield of "5.00".
C2_Witness ==
    /\ accepted = 2
    /\ called = 2
    /\ \E c \in LastCalls : c.yield = 500 /\ c.confidence = 100

\* C7: a submit that fails validation raises the "Missing Information"
\* notice and changes nothing else: form data, loading flag (false before
\* and after), pending timers and callback count are as before.
C7_RejectedSubmitFrame ==
    [][(IsSubmitRun(effects') /\ ~RequiredFilled(formData))
          => /\ Toasts(effects') = {"Missing Information"}
             /\ formData' = formData
             /\ isLoading' = isLoading
             /\ isLoading' = FALSE
             /\ timers' = timers
             /\ called' = called
             /\ accepted' = accepted]_vars

\* A rejected submit of a form with some field filled, nothing pending.
C7_Witness ==
    /\ IsSubmitRun(effects)
    /\ Toasts(effects) = {"Missing Information"}
    /\ formData # EmptyForm
    /\ ~isLoading
    /\ timers = <<>>
    /\ called = 0

\* C8: at most one delayed completion is pending at any time, whatever the
\* interleaving of submits, edits and timer firings.
C8_OneSubmissionInFlight == Len(timers) <= 1

\* A second submission in flight after the first one completed, the form
\* edited since the submit.
C8_Witness ==
    /\ Len(timers) = 1
    /\ isLoading
    /\ accepted = 2
    /\ called = 1
    /\ formData # timers[1].formData

Phase ==
    IF isLoading THEN "submitting"
    ELSE IF called = 0 THEN "idle" ELSE "complete"

\* C9: the loading flag is true exactly while a completion is pending; the
\* phase moves only idle -> submitting -> complete (and from complete to
\* submitting on the next accepted submit); within a completion the call of
\* onPrediction precedes the clearing of the flag and the notice; and a
\* submitting form eventually stops loading.
C9_Phases ==
    /\ [](isLoading <=> timers # <<>>)
    /\ [](\A i \in DOMAIN effects, j \in DOMAIN effects :
             (effects[i].op = "onPrediction"
              /\ effects[j].op \in {"setIsLoading", "toast"}) => i < j)
    /\ [][Phase' # Phase =>
             <<Phase, Phase'>> \in {<<"idle", "submitting">>,
                                    <<"submitting", "complete">>,
                                    <<"complete", "submitting">>}]_vars
    /\ isLoading ~> ~isLoading

\* A completion has run: callback, then flag, then notice.
C9_Witness ==
    /\ Phase = "complete"
    /\ Len(effects) = 3
    /\ effects[1].op = "onPrediction"
    /\ effects[2].op = "setIsLoading"
    /\ effects[3].op = "toast"

\* C10 as stated: yield in [2,5), temperature in [18,28), rainfall in
\* [30,90), confidence in [80,100), upper ends excluded.
C10_Original ==
    \A c \in LastCalls :
        /\ 200 <= c.yield /\ c.yield < 500
        /\ 180 <= c.temperature /\ c.temperature < 280
        /\ 30 <= c.rainfall /\ c.rainfall < 90
        /\ 80 <= c.confidence /\ c.confidence < 100

\* C10 (amended): the values handed over lie in the closed ranges: yield in
\* [2,5], temperature in [18,28], rainfall in [30,90], confidence in
\* [80,100]; toFixed rounds a sample near the upper end up to it.
C10_ResultRanges ==
    \A c \in LastCalls :
        /\ 200 <= c.yield /\ c.yield <= 500
        /\ 180 <= c.temperature /\ c.temperature <= 280
        /\ 30 <= c.rainfall /\ c.rainfall <= 90
        /\ 80 <= c.confidence /\ c.confidence <= 100

\* A result with the lower ends of yield and confidence and the upper ends
\* of temperature and rainfall.
C10_Witness ==
    \E c \in LastCalls :
        /\ c.yield = 200
        /\ c.temperature = 280
        /\ c.rainfall = 90
        /\ c.confidence = 80

\* ------------------------------------------------------ Dashboard claims
RECURSIVE SumAreasUpTo(_, _)
SumAreasUpTo(fs, n) ==
    IF n = 0 THEN 0 ELSE SumAreasUpTo(fs, n - 1) + fs[n].area_hectares

RECURSIVE SumYieldsUpTo(_, _)
SumYieldsUpTo(ps, n) ==
    IF n = 0 THEN 0 ELSE SumYieldsUpTo(ps, n - 1) + ps[n].yield_per_hectare

\* C3: the total area is the sum of the farms' areas, 0 for no farms; farms
\* of 2.5 ha and 1.5 ha give 4.0 ha, shown as "4.0".
C3_TotalArea ==
    /\ totalArea = SumAreasUpTo(farms, Len(farms))
    /\ farms = <<>> => totalArea = 0
    /\ {farms[i].area_hectares : i \in DOMAIN farms} = {5, 3} /\ Len(farms) = 2
          => totalArea = 8 /\ totalAreaDisplay = 40

\* The fetched farms are the 2.5 ha and the 1.5 ha farm.
C3_Witness ==
    /\ Len(farms) = 2
    /\ {farms[i].area_hectares : i \in DOMAIN farms} = {5, 3}
    /\ CountOp(dashEffects, "setFarms") = 1

\* C4: the average yield is a well-defined number (no division by zero) and
\* equals the sum of the yields divided by the number of predictions; it is
\* 0 for no predictions.
C4_AvgYield ==
    /\ avgYield.den # 0
    /\ predictions = <<>> => avgYield.num = 0
    /\ predictions # <<>> =>
          avgYield.num * Len(predictions)
              = SumYieldsUpTo(predictions, Len(predictions)) * avgYield.den

\* Ten predictions fetched (the query's limit) whose mean is no whole number
\* of quarter tonnes.
C4_Witness ==
    /\ Len(predictions) = 10
    /\ avgYield.den = 10
    /\ avgYield.num % 10 # 0

\* C5: the chart series has min(7, fetched) points; its i-th point pairs the
\* date, yield and confidence of the prediction that is i-th oldest among
\* the 7 newest fetched: the points run oldest to newest by created_at, and
\* no prediction left out is newer than one shown.
C5_ChartSeries ==
    LET n == Len(predictions)
        k == Min(7, n)
    IN /\ Len(chartData) = k
       /\ \A i \in 1..k : chartData[i] = ChartPoint(predictions[k + 1 - i])
       /\ \A i \in 1..k, j \in 1..k :
             i < j => /\ predictions[k + 1 - i].created_at
                           <= predictions[k + 1 - j].created_at
                      /\ chartData[i].date <= chartData[j].date
       /\ \A i \in 1..k, j \in (k + 1)..n :
             predictions[j].created_at <= predictions[i].created_at

\* Ten predictions fetched, seven charted, over more than one day.
C5_Witness ==
    /\ Len(predictions) = 10
    /\ Len(chartData) = 7
    /\ chartData[1].date < chartData[7].date

\* The last handler run was a round of fetchDashboardData whose Promise.all
\* rejected.
RoundRejected(es) ==
    es # <<>> /\ es[1].op = "await" /\ es[1].arg.outcome = "rejected"

\* C6 as stated: after a round in which a fetch failed, the view holds no
\* farms, no predictions and no profile, and is no longer loading.
C6_Original ==
    RoundRejected(dashEffects)
        => /\ farms = <<>>
           /\ predictions = <<>>
           /\ profile = Null
           /\ loading = FALSE
           /\ CountOp(dashEffects, "console.error") = 1

\* C6 (amended): a round in which any of the three fetches rejects logs the
\* failure once, raises nothing to the view, leaves farms, predictions and
\* profile as they were before the round (the empty defaults when no
\* earlier round filled them) and clears the loading flag; and for a
\* signed-in user the loading flag does become false.
C6_FetchFailureDegrades ==
    /\ [][RoundRejected(dashEffects') /\ inflight' < inflight
             => /\ CountOp(dashEffects', "console.error") = 1
                /\ farms' = farms
                /\ predictions' = predictions
                /\ profile' = profile
                /\ loading' = FALSE]_vars
    /\ [](CountOp(dashEffects, "unhandledrejection") = 0)
    /\ [](~mounted => farms = <<>> /\ predictions = <<>> /\ profile = Null)
    /\ (~mounted /\ user # NoUser) ~> ~loading
    /\ (inflight > 0) ~> ~loading

\* A round failed after an earlier round had filled the view.
C6_Witness ==
    /\ RoundRejected(dashEffects)
    /\ farms # <<>>
    /\ predictions # <<>>
    /\ profile # Null
    /\ ~loading

\* ------------------------------------------- form claims, second series
\* The results onPrediction received in the handler run es.
CallsOf(es) ==
    {es[i].arg : i \in {j \in DOMAIN es : es[j].op = "onPrediction"}}

\* C11: nothing cancels a scheduled completion.  Dismantling the form
\* leaves every pending timer pending; a timer leaves the queue only by
\* firing, and a firing calls onPrediction once and calls the state setter,
\* also on a dismantled form; and a completion pending on a dismantled form
\* does fire.
C11_NoCancellation ==
    /\ [][formMounted /\ ~formMounted' => timers' = timers]_vars
    /\ [][Len(timers') < Len(timers)
             => /\ timers' = Tail(timers)
                /\ called' = called + 1
                /\ CountOp(effects', "onPrediction") = 1
                /\ CountOp(effects', "setIsLoading") = 1]_vars
    /\ (~formMounted /\ timers # <<>>)
          ~> (~formMounted /\ timers = <<>> /\ called = accepted)

\* The completion has run on a dismantled form: the callback was called and
\* the flag setter was called.
C11_Witness ==
    /\ ~formMounted
    /\ timers = <<>>
    /\ accepted = 1
    /\ called = 1
    /\ CountOp(effects, "onPrediction") = 1
    /\ CountOp(effects, "setIsLoading") = 1

\* C13: the farmData handed to onPrediction is the form data of the moment
\* of the accepted submit.  The accepted submit queues a completion holding
\* the form data of that moment; an edit changes the form data and no
\* pending completion; the completion hands over what its timer holds and
\* leaves the form data as it is.
C13_FarmDataIsSubmitSnapshot ==
    /\ [][accepted' > accepted
             => /\ Len(timers') = Len(timers) + 1
                /\ timers'[Len(timers')].formData = formData]_vars
    /\ [][formData' # formData => timers' = timers]_vars
    /\ [][Len(timers') < Len(timers)
             => /\ CallsOf(effects') # {}
                /\ \A c \in CallsOf(effects') :
                      c.farmData = Head(timers).formData
                /\ formData' = formData]_vars

\* A completion handed over farmData that differs from what the form holds
\* now: the form was edited while the completion was pending.
C13_Witness ==
    /\ formMounted
    /\ called = 1
    /\ formData # EmptyForm
    /\ \E c \in LastCalls : c.farmData # formData

\* ---------------------------------------- Dashboard claims, second series
\* The setter of each view-state slot.
SetterOf(slot) ==
    CASE slot = "farms" -> "setFarms"
      [] slot = "predictions" -> "setPredictions"
      [] slot = "profile" -> "setProfile"

Slots == {"farms", "predictions", "profile"}

\* C12: a round in which one of the three promises rejected runs no setter
\* and changes none of farms, predictions, profile, whichever of the other
\* queries had come back with data; a round in which none rejected runs
\* the setter of exactly the slots whose query came back with data, so a
\* query without data leaves its own slot as it was and the others are set.
C12_AggregateFailureOnly ==
    [][inflight' < inflight =>
          LET await == dashEffects'[1].arg
          IN IF await.outcome = "rejected"
             THEN /\ \A slot \in Slots : CountOp(dashEffects', SetterOf(slot)) = 0
                  /\ farms' = farms
                  /\ predictions' = predictions
                  /\ profile' = profile
             ELSE /\ \A slot \in Slots :
                        CountOp(dashEffects', SetterOf(slot))
                            = IF slot \in await.withData THEN 1 ELSE 0
                  /\ "farms" \notin await.withData => farms' = farms
                  /\ "predictions" \notin await.withData
                        => predictions' = predictions
                  /\ "profile" \notin await.withData => profile' = profile
                  /\ "farms" \in await.withData
                        => farms' = ValueAfter(dashEffects', "setFarms", farms)
                  /\ "profile" \in await.withData => profile' # Null]_vars

\* A round rejected although the farms and predictions queries had come back
\* with data: the view still holds no farm and no prediction.
C12_Witness ==
    /\ RoundRejected(dashEffects)
    /\ dashEffects[1].arg.withData = {"farms", "predictions"}
    /\ farms = <<>>
    /\ predictions = <<>>
    /\ ~loading
====
